---- MODULE Spec2Model ----
(***************************************************************************)
(* PoissonScheduler (src/src/lib.rs): a scheduler constructed from a rate  *)
(* that, for a caller-supplied runtime, draws exponential inter-arrival    *)
(* gaps, busy-waits until now()+gap and calls the caller's action with     *)
(* that instant.                                                           *)
(*                                                                         *)
(* Time is counted in nanoseconds.  Instant::now() is the monotonic clock  *)
(* `now`; it is non-decreasing and advances by the Tick action at any      *)
(* point of the program, also between two reads and while the action runs. *)
(* An f64 gap is a record: a finite value counted in half nanoseconds      *)
(* (so that truncation to whole nanoseconds loses something) or +infinity. *)
(***************************************************************************)
EXTENDS Integers, Naturals, Sequences, FiniteSets, TLC

(* ---- bounds of the model ---- *)
MaxClock == 4            \* the clock stops advancing here
MaxRuntime == 2          \* finite runtimes passed to run
MaxGapHalves == 6        \* finite gaps drawn, in half nanoseconds
MaxEvents == 3           \* how many invocations the history records
MaxActionTime == 1       \* action durations of the paired runs
MaxPairGaps == 2         \* gaps the paired runs are fed
MaxDraws == 2            \* gaps each of several schedulers draws

(* ---- ranges of the number types, scaled ---- *)
U64_MAX == 2             \* largest u64 (Duration::from_nanos argument)
INSTANT_MAX == MaxClock + U64_MAX + MaxRuntime + 1   \* largest Instant
DURATION_MAX == INSTANT_MAX + 1                      \* Duration::MAX

RATE_LIMIT == 1000000000
NANOS_PER_SEC == 1000000000

NoTime == 0 - 1             \* a local that is not in scope / not yet set

Rates == {-1, 0, 1, 10, RATE_LIMIT, RATE_LIMIT + 1, 2 * RATE_LIMIT}
Runtimes == (0 .. MaxRuntime) \cup {DURATION_MAX}

MSG_RATE == "Rate should not exceed 1e9 operations per second"
MSG_EXP == "Exponential function could not be created."
MSG_INSTANT == "overflow when adding duration to instant"
MSG_ACTION == "action panicked"

VARIABLES
  pc,                  \* position of the caller / of run
  now,                 \* Instant::now(), the monotonic clock
  rate,                \* argument of new
  exp,                 \* the scheduler's Exp<f64>: its lambda, or NoExp
  runtime,             \* argument of run
  end_time,            \* run: end_time
  inter_arrival_time,  \* run: the gap drawn in this iteration
  next_time,           \* run: next_time of this iteration
  current,             \* wait_until: current
  time_span,           \* wait_until: time_span
  panic_msg,           \* message of the panic that ended the program
  panic_in,            \* the function the panic was raised in
  \* history
  called_at,           \* clock reading when run was called
  checked_at,          \* clock reading of the last loop-condition check
  based_at,            \* clock reading next_time was computed from
  entered_at,          \* clock reading when the current wait began
  calls,               \* timestamps passed to action (first MaxEvents)
  drawn,               \* gaps drawn (counted up to MaxEvents)
  invoked,             \* action invocations (counted up to MaxEvents)
  last_arg,            \* the timestamp of the latest action invocation
  began_at,            \* clock reading of the check that began the latest iteration
  invoked_at,          \* clock reading when the latest action was invoked
  \* two runs side by side, fed the same gaps
  runs,                \* the locals and the clock of each of the two runs
  gaps,                \* the gaps the sampler returns, in order, to both
  \* several schedulers on several threads
  thread_rngs,         \* per thread: values its thread-local generator has produced
  schedulers,          \* per scheduler: the thread it was created on (0: none), its exp
  draws                \* per scheduler: gaps it has drawn

vars == <<pc, now, rate, exp, runtime, end_time, inter_arrival_time,
          next_time, current, time_span, panic_msg, panic_in,
          called_at, checked_at, based_at, entered_at, calls, drawn, invoked,
          last_arg, began_at, invoked_at, runs, gaps, thread_rngs, schedulers,
          draws>>

prog == <<rate, exp, runtime, end_time, inter_arrival_time, next_time,
          current, time_span, panic_msg, panic_in>>
hist == <<called_at, checked_at, based_at, entered_at, calls, drawn, invoked,
          last_arg, began_at, invoked_at>>
pair == <<runs, gaps>>
multi == <<thread_rngs, schedulers, draws>>

(* ---- f64 values ---- *)
Fin(h) == [k |-> "fin", h |-> h]
PosInf == [k |-> "inf", h |-> 0]

\* lamda = rate / 1e9, kept as an exact fraction
Lamda(r) == [num |-> r, den |-> NANOS_PER_SEC]
NoExp == [num |-> 0, den |-> 0]

Min(a, b) == IF a < b THEN a ELSE b

Threads == {1, 2}
Instances == {1, 2}
NoScheduler == [thread |-> 0, rng |-> 0, exp |-> NoExp]

PairRuns == {1, 2}
NoRun == [pc |-> "none", now |-> 0, end_time |-> NoTime, taken |-> 0,
          inter_arrival_time |-> Fin(0), next_time |-> NoTime,
          current |-> NoTime, time_span |-> NoTime, calls |-> <<>>]

(* ---- the operations of the number and time types ---- *)

\* new with the limit itself refused
RateExceedsLimitInclusive(r) == r >= RATE_LIMIT

\* new: `rate > 1e9`
RateExceedsLimit(r) == r > RATE_LIMIT

\* Exp::new(lamda): Err(LambdaTooSmall) for a negative lambda.  lambda = 0 is
\* accepted by rand_distr from 0.4 on (every sample is then +infinity) and
\* rejected by the releases before it; the build's manifest chooses.
ExpNew(l) ==
  IF l.num < 0 THEN {"err"}
  ELSE IF l.num = 0 THEN {"ok", "err"}
  ELSE {"ok"}

\* self.exp.sample(&mut self.rng): any non-negative f64
ExpSample(e) ==
  IF e.num = 0 THEN {PosInf}
  ELSE {Fin(h) : h \in 0 .. MaxGapHalves}

\* the gap rounded to the nearest nanosecond instead of truncated
F64RoundedAsU64(x) ==
  IF x.k = "inf" THEN U64_MAX
  ELSE Min((x.h + 1) \div 2, U64_MAX)

\* `inter_arrival_time as u64`: truncates toward zero and saturates
F64AsU64(x) ==
  IF x.k = "inf" THEN U64_MAX
  ELSE Min(x.h \div 2, U64_MAX)

\* Instant + Duration panics when the sum is not representable
InstantAddOverflows(i, d) == i + d > INSTANT_MAX
InstantAdd(i, d) == i + d

\* duration_since that loses the last nanosecond
DurationSinceShort(later, earlier) ==
  IF later > earlier + 1 THEN later - earlier - 1 ELSE 0

\* duration_since with receiver and argument exchanged
DurationSinceSwapped(later, earlier) ==
  IF earlier > later THEN earlier - later ELSE 0

\* Instant::duration_since saturates at zero
DurationSince(later, earlier) ==
  IF later > earlier THEN later - earlier ELSE 0

\* the loop condition with `<=`
LoopCondInclusive(n, e) == n <= e

\* the loop condition giving up one nanosecond early
LoopCondEarly(n, e) == n + 1 < e

\* run: `while Instant::now() < end_time`
LoopCond(n, e) == n < e

\* the polling loop with `>=`
WaitCondInclusive(span) == span >= 0

\* the polling loop stopping with a nanosecond left
WaitCondCoarse(span) == span > 1

\* wait_until: `while time_span.as_secs_f64() > 0.0`
WaitCond(span) == span > 0

\* the history counts up to MaxEvents and then stays there
Count(n) == Min(n + 1, MaxEvents)
Record(s, t) == IF Len(s) < MaxEvents THEN Append(s, t) ELSE s

(* ---- initial state: nothing constructed, the clock anywhere ---- *)
Init ==
  /\ pc = "start"
  /\ now \in 0 .. 1
  /\ rate = 0
  /\ exp = NoExp
  /\ runtime = 0
  /\ end_time = NoTime
  /\ inter_arrival_time = Fin(0)
  /\ next_time = NoTime
  /\ current = NoTime
  /\ time_span = NoTime
  /\ panic_msg = ""
  /\ panic_in = ""
  /\ called_at = NoTime
  /\ checked_at = NoTime
  /\ based_at = NoTime
  /\ entered_at = NoTime
  /\ calls = <<>>
  /\ drawn = 0
  /\ invoked = 0
  /\ last_arg = NoTime
  /\ began_at = NoTime
  /\ invoked_at = NoTime
  /\ thread_rngs = [t \in Threads |-> 0]
  /\ schedulers = [i \in Instances |-> NoScheduler]
  /\ draws = [i \in Instances |-> 0]
  /\ runs = [r \in PairRuns |-> NoRun]
  /\ gaps = <<>>

\* a panic unwinds out of the program
Panic(msg, where) ==
  /\ pc' = "panicked"
  /\ panic_msg' = msg
  /\ panic_in' = where

(* ---- the monotonic clock ---- *)
Tick ==
  /\ now < MaxClock
  /\ now' = now + 1
  /\ UNCHANGED pair
  /\ UNCHANGED multi
  /\ UNCHANGED <<pc, prog, hist>>

(* ---- PoissonScheduler::new(rate) ---- *)
New(r) ==
  /\ pc = "start"
  /\ rate' = r
  /\ IF RateExceedsLimit(r)
       THEN /\ Panic(MSG_RATE, "new")
            /\ exp' = NoExp
       ELSE \E res \in ExpNew(Lamda(r)) :
              IF res = "err"
                THEN /\ Panic(MSG_EXP, "new")
                     /\ exp' = NoExp
                ELSE /\ pc' = "idle"
                     /\ exp' = Lamda(r)
                     /\ UNCHANGED <<panic_msg, panic_in>>
  /\ UNCHANGED pair
  /\ UNCHANGED multi
  /\ UNCHANGED <<now, runtime, end_time, inter_arrival_time, next_time,
                 current, time_span, hist>>

(* ---- PoissonScheduler::run(runtime, action) ---- *)
\* let end_time = Instant::now() + runtime;
Run(rt) ==
  /\ pc = "idle"
  /\ runtime' = rt
  /\ called_at' = now
  /\ IF InstantAddOverflows(now, rt)
       THEN /\ Panic(MSG_INSTANT, "run")
            /\ UNCHANGED end_time
       ELSE /\ pc' = "loop"
            /\ end_time' = InstantAdd(now, rt)
            /\ UNCHANGED <<panic_msg, panic_in>>
  /\ UNCHANGED pair
  /\ UNCHANGED multi
  /\ UNCHANGED <<last_arg, began_at, invoked_at>>
  /\ UNCHANGED <<now, rate, exp, inter_arrival_time, next_time, current,
                 time_span, checked_at, based_at, entered_at, calls, drawn,
                 invoked>>

\* while Instant::now() < end_time
LoopCheck ==
  /\ pc = "loop"
  /\ checked_at' = now
  /\ pc' = IF LoopCond(now, end_time) THEN "sample" ELSE "returned"
  /\ UNCHANGED pair
  /\ UNCHANGED multi
  /\ began_at' = IF LoopCond(now, end_time) THEN now ELSE began_at
  /\ UNCHANGED <<last_arg, invoked_at>>
  /\ UNCHANGED <<now, prog, called_at, based_at, entered_at, calls, drawn,
                 invoked>>

\* let inter_arrival_time = self.exp.sample(&mut self.rng);
Sample ==
  /\ pc = "sample"
  /\ \E g \in ExpSample(exp) : inter_arrival_time' = g
  /\ drawn' = Count(drawn)
  /\ pc' = "next"
  /\ UNCHANGED pair
  /\ UNCHANGED multi
  /\ UNCHANGED <<last_arg, began_at, invoked_at>>
  /\ UNCHANGED <<now, rate, exp, runtime, end_time, next_time, current,
                 time_span, panic_msg, panic_in, called_at, checked_at,
                 based_at, entered_at, calls, invoked>>

\* let next_time = Instant::now() + Duration::from_nanos(inter_arrival_time as u64);
ComputeNext ==
  /\ pc = "next"
  /\ based_at' = now
  /\ IF InstantAddOverflows(now, F64AsU64(inter_arrival_time))
       THEN /\ Panic(MSG_INSTANT, "run")
            /\ UNCHANGED next_time
       ELSE /\ pc' = "wait_enter"
            /\ next_time' = InstantAdd(now, F64AsU64(inter_arrival_time))
            /\ UNCHANGED <<panic_msg, panic_in>>
  /\ UNCHANGED pair
  /\ UNCHANGED multi
  /\ UNCHANGED <<last_arg, began_at, invoked_at>>
  /\ UNCHANGED <<now, rate, exp, runtime, end_time, inter_arrival_time,
                 current, time_span, called_at, checked_at, entered_at,
                 calls, drawn, invoked>>

(* ---- PoissonScheduler::wait_until(next) ---- *)
\* let mut current = Instant::now(); let mut time_span = next.duration_since(current);
WaitUntilEnter ==
  /\ pc = "wait_enter"
  /\ entered_at' = now
  /\ current' = now
  /\ time_span' = DurationSince(next_time, now)
  /\ pc' = "wait_loop"
  /\ UNCHANGED pair
  /\ UNCHANGED multi
  /\ UNCHANGED <<last_arg, began_at, invoked_at>>
  /\ UNCHANGED <<now, rate, exp, runtime, end_time, inter_arrival_time,
                 next_time, panic_msg, panic_in, called_at, checked_at,
                 based_at, calls, drawn, invoked>>

\* while time_span.as_secs_f64() > 0.0 { current = now(); time_span = ... }
WaitUntilPoll ==
  /\ pc = "wait_loop"
  /\ IF WaitCond(time_span)
       THEN /\ current' = now
            /\ time_span' = DurationSince(next_time, now)
            /\ pc' = "wait_loop"
       ELSE /\ current' = NoTime
            /\ time_span' = NoTime
            /\ pc' = "call"
  /\ UNCHANGED pair
  /\ UNCHANGED multi
  /\ UNCHANGED <<now, rate, exp, runtime, end_time, inter_arrival_time,
                 next_time, panic_msg, panic_in, hist>>

(* ---- action(next_time) ---- *)
InvokeAction ==
  /\ pc = "call"
  /\ calls' = Record(calls, next_time)
  /\ invoked' = Count(invoked)
  /\ last_arg' = next_time
  /\ invoked_at' = now
  /\ UNCHANGED began_at
  /\ pc' = "in_action"
  /\ UNCHANGED pair
  /\ UNCHANGED multi
  /\ UNCHANGED <<now, prog, called_at, checked_at, based_at, entered_at,
                 drawn>>

\* the action returns and the loop goes on without checking the deadline
ActionReturnsUnchecked ==
  /\ pc = "in_action"
  /\ pc' = "sample"
  /\ next_time' = NoTime
  /\ UNCHANGED pair
  /\ UNCHANGED multi
  /\ UNCHANGED <<now, rate, exp, runtime, end_time, inter_arrival_time,
                 current, time_span, panic_msg, panic_in, hist>>

\* the action returns and its execution time is added back to the deadline
ActionReturnsExtending ==
  /\ pc = "in_action"
  /\ pc' = "loop"
  /\ next_time' = NoTime
  /\ end_time' = end_time + (now - invoked_at)
  /\ UNCHANGED pair
  /\ UNCHANGED multi
  /\ UNCHANGED <<now, rate, exp, runtime, inter_arrival_time,
                 current, time_span, panic_msg, panic_in, hist>>

\* the action returns; the iteration's locals go out of scope
ActionReturns ==
  /\ pc = "in_action"
  /\ pc' = "loop"
  /\ next_time' = NoTime
  /\ UNCHANGED pair
  /\ UNCHANGED multi
  /\ UNCHANGED <<now, rate, exp, runtime, end_time, inter_arrival_time,
                 current, time_span, panic_msg, panic_in, hist>>

\* the action panics, run catches the panic and goes on with the loop
ActionPanicCaught ==
  /\ pc = "in_action"
  /\ pc' = "loop"
  /\ panic_msg' = MSG_ACTION
  /\ panic_in' = "action"
  /\ UNCHANGED pair
  /\ UNCHANGED multi
  /\ UNCHANGED <<now, rate, exp, runtime, end_time, inter_arrival_time,
                 next_time, current, time_span, hist>>

\* the action panics; run has no catch_unwind, the panic leaves run
ActionPanics ==
  /\ pc = "in_action"
  /\ Panic(MSG_ACTION, "action")
  /\ UNCHANGED pair
  /\ UNCHANGED multi
  /\ UNCHANGED <<now, rate, exp, runtime, end_time, inter_arrival_time,
                 next_time, current, time_span, hist>>

RunStep ==
  \/ LoopCheck
  \/ Sample
  \/ ComputeNext
  \/ WaitUntilEnter
  \/ WaitUntilPoll
  \/ InvokeAction
  \/ ActionReturns

Next ==
  \/ Tick
  \/ \E r \in Rates : New(r)
  \/ \E rt \in Runtimes : Run(rt)
  \/ LoopCheck
  \/ Sample
  \/ ComputeNext
  \/ WaitUntilEnter
  \/ WaitUntilPoll
  \/ InvokeAction
  \/ ActionReturns
  \/ ActionPanics

Spec == Init /\ [][Next]_vars

FairSpec == Spec /\ WF_vars(RunStep)

(***************************************************************************)
(* Two calls of run side by side: the same start instant, the same runtime *)
(* and the same gaps from the sampler, in the same order.  The clock of a  *)
(* run advances only while it polls in wait_until (up to the target) and   *)
(* while its action executes, so the two runs differ in nothing but the    *)
(* time their actions take.                                                *)
(***************************************************************************)
single == <<pc, now, prog, hist>>

PairStart ==
  /\ pc = "start"
  /\ now = 0
  /\ rate = 0
  /\ exp = NoExp
  /\ runtime = 0
  /\ end_time = NoTime
  /\ inter_arrival_time = Fin(0)
  /\ next_time = NoTime
  /\ current = NoTime
  /\ time_span = NoTime
  /\ panic_msg = ""
  /\ panic_in = ""
  /\ called_at = NoTime
  /\ checked_at = NoTime
  /\ based_at = NoTime
  /\ entered_at = NoTime
  /\ calls = <<>>
  /\ drawn = 0
  /\ invoked = 0
  /\ last_arg = NoTime
  /\ began_at = NoTime
  /\ invoked_at = NoTime
  /\ thread_rngs = [t \in Threads |-> 0]
  /\ schedulers = [i \in Instances |-> NoScheduler]
  /\ draws = [i \in Instances |-> 0]
  /\ gaps \in [1 .. MaxPairGaps -> {Fin(h) : h \in 0 .. MaxGapHalves}]
  /\ \E start \in 0 .. 1, rt \in 1 .. MaxRuntime :
       runs = [r \in PairRuns |->
                 [NoRun EXCEPT !.pc = "loop", !.now = start,
                               !.end_time = InstantAdd(start, rt)]]

\* while Instant::now() < end_time
PLoopCheck(r) ==
  /\ runs[r].pc = "loop"
  /\ runs' = [runs EXCEPT ![r].pc =
                IF LoopCond(runs[r].now, runs[r].end_time)
                  THEN "sample" ELSE "returned"]
  /\ UNCHANGED <<gaps, single, multi>>

\* let inter_arrival_time = self.exp.sample(&mut self.rng);
PSample(r) ==
  /\ runs[r].pc = "sample"
  /\ runs[r].taken < Len(gaps)
  /\ runs' = [runs EXCEPT ![r].inter_arrival_time = gaps[runs[r].taken + 1],
                          ![r].taken = @ + 1,
                          ![r].pc = "next"]
  /\ UNCHANGED <<gaps, single, multi>>

\* let next_time = Instant::now() + Duration::from_nanos(inter_arrival_time as u64);
PComputeNext(r) ==
  /\ runs[r].pc = "next"
  /\ runs' = [runs EXCEPT ![r].next_time =
                InstantAdd(runs[r].now, F64AsU64(runs[r].inter_arrival_time)),
                          ![r].pc = "wait_enter"]
  /\ UNCHANGED <<gaps, single, multi>>

\* wait_until: the first read of the clock
PWaitUntilEnter(r) ==
  /\ runs[r].pc = "wait_enter"
  /\ runs' = [runs EXCEPT ![r].current = runs[r].now,
                          ![r].time_span =
                             DurationSince(runs[r].next_time, runs[r].now),
                          ![r].pc = "wait_loop"]
  /\ UNCHANGED <<gaps, single, multi>>

\* wait_until: one turn of the polling loop, or its exit
PWaitUntilPoll(r) ==
  /\ runs[r].pc = "wait_loop"
  /\ runs' = IF WaitCond(runs[r].time_span)
               THEN [runs EXCEPT ![r].current = runs[r].now,
                                 ![r].time_span =
                                    DurationSince(runs[r].next_time, runs[r].now)]
               ELSE [runs EXCEPT ![r].current = NoTime,
                                 ![r].time_span = NoTime,
                                 ![r].pc = "call"]
  /\ UNCHANGED <<gaps, single, multi>>

\* time passes while the run polls
PWaitElapse(r) ==
  /\ runs[r].pc = "wait_loop"
  /\ runs[r].now < runs[r].next_time
  /\ runs' = [runs EXCEPT ![r].now = @ + 1]
  /\ UNCHANGED <<gaps, single, multi>>

\* action(next_time)
PInvokeAction(r) ==
  /\ runs[r].pc = "call"
  /\ runs' = [runs EXCEPT ![r].calls = Append(@, runs[r].next_time),
                          ![r].pc = "in_action"]
  /\ UNCHANGED <<gaps, single, multi>>

\* the action returns after d nanoseconds
PActionReturns(r, d) ==
  /\ runs[r].pc = "in_action"
  /\ runs' = [runs EXCEPT ![r].now = @ + d,
                          ![r].next_time = NoTime,
                          ![r].pc = "loop"]
  /\ UNCHANGED <<gaps, single, multi>>

PairNext ==
  \/ \E r \in PairRuns : PLoopCheck(r)
  \/ \E r \in PairRuns : PSample(r)
  \/ \E r \in PairRuns : PComputeNext(r)
  \/ \E r \in PairRuns : PWaitUntilEnter(r)
  \/ \E r \in PairRuns : PWaitUntilPoll(r)
  \/ \E r \in PairRuns : PWaitElapse(r)
  \/ \E r \in PairRuns : PInvokeAction(r)
  \/ \E r \in PairRuns, d \in 0 .. MaxActionTime : PActionReturns(r, d)

PairSpec == PairStart /\ [][PairNext]_vars

(***************************************************************************)
(* Several schedulers.  `rng: ThreadRng` is what thread_rng() returns: a   *)
(* handle to the generator that is local to the calling thread.  ThreadRng *)
(* is not Send, so a scheduler is used on the thread that created it.      *)
(* Only the draws are followed here, not the waits between them.           *)
(***************************************************************************)

\* one generator shared by every thread
GlobalRngOf(t) == 1

\* thread_rng(): the generator of the calling thread
ThreadRngOf(t) == t

MultiStart ==
  /\ Init
  /\ now = 0

\* PoissonScheduler::new(rate) on thread t, when it succeeds
MNew(i, t, r) ==
  /\ schedulers[i] = NoScheduler
  /\ ~RateExceedsLimit(r)
  /\ "ok" \in ExpNew(Lamda(r))
  /\ schedulers' = [schedulers EXCEPT ![i] =
                      [thread |-> t, rng |-> ThreadRngOf(t), exp |-> Lamda(r)]]
  /\ UNCHANGED <<thread_rngs, draws, pair, single>>

\* self.exp.sample(&mut self.rng) in a run of scheduler i
MSample(i) ==
  /\ schedulers[i] # NoScheduler
  /\ draws[i] < MaxDraws
  /\ thread_rngs' = [thread_rngs EXCEPT ![schedulers[i].rng] = @ + 1]
  /\ draws' = [draws EXCEPT ![i] = @ + 1]
  /\ UNCHANGED <<schedulers, pair, single>>

MultiNext ==
  \/ \E i \in Instances, t \in Threads, r \in Rates : MNew(i, t, r)
  \/ \E i \in Instances : MSample(i)

MultiSpec == MultiStart /\ [][MultiNext]_vars

TypeOK ==
  /\ pc \in {"start", "idle", "loop", "sample", "next", "wait_enter",
             "wait_loop", "call", "in_action", "returned", "panicked"}
  /\ now \in 0 .. MaxClock
  /\ end_time \in {NoTime} \cup (0 .. INSTANT_MAX)
  /\ next_time \in {NoTime} \cup (0 .. INSTANT_MAX)
  /\ Len(calls) <= MaxEvents

(***************************************************************************)
(* Properties                                                              *)
(***************************************************************************)

\* C1: new(rate) panics with the message about the 1e9 limit, and leaves no
\* scheduler, for every rate > 1e9; new(1e9) raises no panic and yields a
\* scheduler.
Thm_C1_RateLimit ==
  pc # "start" =>
    /\ rate > RATE_LIMIT =>
         (pc = "panicked" /\ panic_msg = MSG_RATE /\ panic_in = "new"
            /\ exp = NoExp)
    /\ rate = RATE_LIMIT => (panic_in # "new" /\ exp = Lamda(RATE_LIMIT))

Wit_C1_RateLimit ==
  /\ pc = "panicked"
  /\ rate = RATE_LIMIT + 1
  /\ panic_msg = MSG_RATE

\* C2: new(rate) panics for every rate <= 0, so that every scheduler that
\* exists has an intensity lambda > 0.
Cex_C2_NonPositiveRate ==
  /\ (pc # "start" /\ rate <= 0) => (pc = "panicked" /\ panic_in = "new")
  /\ exp # NoExp => exp.num > 0

\* C3 as stated: the timestamps passed to action within one run are
\* strictly increasing, and the first is >= the clock when run was called.
Cex_C3_StrictlyIncreasing ==
  /\ \A i \in 1 .. Len(calls) - 1 : calls[i] < calls[i + 1]
  /\ Len(calls) >= 1 => calls[1] >= called_at

\* C3 amended: the timestamps passed to action within one run never
\* decrease (consecutive ones may be equal), and the first is >= the clock
\* when run was called.
Thm_C3_NonDecreasing ==
  /\ \A i \in 1 .. Len(calls) - 1 : calls[i] <= calls[i + 1]
  /\ Len(calls) >= 1 => calls[1] >= called_at

Wit_C3_NonDecreasing ==
  /\ Len(calls) = 3
  /\ calls[1] = calls[2]
  /\ calls[2] < calls[3]
  /\ calls[1] > called_at

\* C4: two runs that start at the same instant and are fed the same gaps
\* pass the same timestamps to action, whatever time their actions take.
Cex_C4_IndependentOfAction ==
  \A i \in 1 .. Min(Len(runs[1].calls), Len(runs[2].calls)) :
    runs[1].calls[i] = runs[2].calls[i]

\* C5: when wait_until(target) returns, the clock is not earlier than
\* target.
Thm_C5_WaitUntil ==
  pc = "call" => (next_time # NoTime /\ now >= next_time)

Wit_C5_WaitUntil ==
  /\ pc = "call"
  /\ entered_at < next_time
  /\ now = next_time

\* C6: action is invoked with the next_time computed in that iteration, and
\* the clock at the invocation is >= that next_time.
Thm_C6_NeverEarly ==
  pc = "in_action" =>
    /\ last_arg = next_time
    /\ last_arg = based_at + F64AsU64(inter_arrival_time)
    /\ now >= last_arg

Wit_C6_NeverEarly ==
  /\ pc = "in_action"
  /\ last_arg > based_at
  /\ invoked = 2

\* C7: a run with runtime = 0 returns, whether or not the clock advances.
Thm_C7_ZeroRuntime ==
  (pc = "loop" /\ runtime = 0) ~> (pc = "returned")

Wit_C7_ZeroRuntime ==
  /\ pc = "returned"
  /\ runtime = 0
  /\ now = called_at

\* C8: once new has succeeded, no panic is raised by run or wait_until;
\* the only panic after construction is the action's own.
Cex_C8_Infallible ==
  pc = "panicked" => panic_in \in {"new", "action"}

\* C10: when run returns, as many actions were invoked as gaps were drawn,
\* and the loop check that ended the run read a clock >= end_time.
Thm_C10_NothingPending ==
  /\ pc = "returned" => (drawn = invoked /\ checked_at >= end_time)
  /\ pc \in {"loop", "sample"} => drawn = invoked

Wit_C10_NothingPending ==
  /\ pc = "returned"
  /\ drawn = 2
  /\ invoked = 2

\* the positions inside one iteration of run's loop
InIteration == {"sample", "next", "wait_enter", "wait_loop", "call", "in_action"}

\* C11: every iteration begins at a loop check that read a clock < end_time,
\* and once action has been invoked with a timestamp >= end_time no further
\* gap is drawn and no further action is invoked: only the last recorded
\* timestamp can be >= end_time.
Thm_C11_OnlyLastLate ==
  /\ pc \in InIteration => (began_at = checked_at /\ began_at < end_time)
  /\ (last_arg # NoTime /\ last_arg >= end_time) =>
       pc \in {"in_action", "loop", "returned", "panicked"}
  /\ \A i \in 1 .. Len(calls) - 1 : calls[i] < end_time

Wit_C11_OnlyLastLate ==
  /\ pc = "returned"
  /\ Len(calls) = 2
  /\ calls[1] < end_time
  /\ calls[2] > end_time

\* C12 as stated: the instant at which run returns exceeds end_time by at
\* most the last drawn gap plus the execution time of the last action (the
\* time from its invocation to the loop check that follows it).
Cex_C12_OvershootGapPlusAction ==
  (pc = "returned" /\ began_at # NoTime /\ inter_arrival_time.k = "fin") =>
    2 * (checked_at - end_time)
      <= inter_arrival_time.h + 2 * (checked_at - invoked_at)

\* C12 amended: the instant at which run returns exceeds end_time by less
\* than the duration of the last iteration, from the loop check that began
\* it (draw, wait up to the invocation, action) to the check that returns.
Thm_C12_OvershootOneIteration ==
  (pc = "returned" /\ began_at # NoTime) =>
    /\ began_at <= invoked_at
    /\ invoked_at <= checked_at
    /\ checked_at - end_time
         < (invoked_at - began_at) + (checked_at - invoked_at)

Wit_C12_OvershootOneIteration ==
  /\ pc = "returned"
  /\ began_at # NoTime
  /\ inter_arrival_time.k = "fin"
  /\ checked_at > end_time
  /\ 2 * (invoked_at - end_time) > inter_arrival_time.h

\* the order of the steps of run: check the deadline, draw the gap, compute
\* the target, wait, invoke the action, and back to the check
StepOrder ==
  {<<"loop", "sample">>, <<"loop", "returned">>, <<"sample", "next">>,
   <<"next", "wait_enter">>, <<"next", "panicked">>,
   <<"wait_enter", "wait_loop">>, <<"wait_loop", "call">>,
   <<"call", "in_action">>, <<"in_action", "loop">>,
   <<"in_action", "panicked">>}

\* C13: the steps of run follow one another in the order check, draw, wait,
\* invoke; a gap is drawn only right after a deadline check and when every
\* earlier action has returned; the deadline is read only between
\* iterations, never during a wait or an action.
Thm_C13_StepOrder ==
  [][/\ (pc \in InIteration \cup {"loop"} /\ pc' # pc) =>
           <<pc, pc'>> \in StepOrder
     /\ drawn' # drawn => (pc = "sample" /\ drawn = invoked)
     /\ invoked' # invoked => (pc = "call" /\ pc' = "in_action")
     /\ checked_at' # checked_at => pc = "loop"]_vars

Wit_C13_StepOrder ==
  /\ pc = "next"
  /\ drawn = 2
  /\ invoked = 1
  /\ checked_at > called_at

\* run makes progress and the clock advances
LiveSpec == Spec /\ WF_vars(RunStep) /\ WF_vars(Tick)

\* C14: with a finite runtime, a clock that keeps advancing, finite gaps and
\* actions that return, run eventually returns.  The clock of the model
\* stops at MaxClock, so the deadline is taken within that horizon, and a
\* run whose wait target lies beyond it is let off, as is an action that
\* panics.
Thm_C14_RunTerminates ==
  (pc = "loop" /\ end_time <= MaxClock)
    ~> (pc \in {"returned", "panicked"} \/ next_time > MaxClock)

Wit_C14_RunTerminates ==
  /\ pc = "returned"
  /\ runtime > 0
  /\ invoked >= 2
  /\ end_time <= MaxClock
  /\ now < MaxClock

\* the state of the randomness source scheduler i holds
SourceOf(i) == thread_rngs[schedulers[i].rng]

Thm_C16_ActionPanicPropagates ==
  [][panic_in = "action" =>
       /\ pc = "panicked"
       /\ panic_msg = MSG_ACTION
       /\ pc' = "panicked"
       /\ panic_msg' = MSG_ACTION
       /\ UNCHANGED <<calls, drawn, invoked, last_arg>>]_vars

Wit_C16_ActionPanicPropagates ==
  /\ pc = "panicked"
  /\ panic_in = "action"
  /\ invoked = 2
  /\ now > invoked_at
  /\ now < end_time

\* the positions at which next_time of the iteration is in scope
NextTimeSet == {"wait_enter", "wait_loop", "call", "in_action"}

\* C17 as stated: next_time is the clock reading taken after the draw plus
\* the gap truncated toward zero to whole nanoseconds (for every finite
\* gap; an infinite gap has no truncation).
Cex_C17_NextTimeTruncated ==
  (pc \in NextTimeSet /\ inter_arrival_time.k = "fin") =>
    next_time = based_at + (inter_arrival_time.h \div 2)

\* C17 amended: next_time is the clock reading taken after the draw plus
\* the gap truncated toward zero to whole nanoseconds and limited to the
\* largest u64 (which an infinite gap gives too); a gap in [0, 1) ns gives
\* that clock reading itself, and next_time is never earlier than it.
Thm_C17_NextTimeSaturated ==
  pc \in NextTimeSet =>
    /\ (inter_arrival_time.k = "fin"
          /\ inter_arrival_time.h \div 2 <= U64_MAX)
         => next_time = based_at + (inter_arrival_time.h \div 2)
    /\ (inter_arrival_time.k = "inf"
          \/ inter_arrival_time.h \div 2 > U64_MAX)
         => next_time = based_at + U64_MAX
    /\ (inter_arrival_time.k = "fin" /\ inter_arrival_time.h < 2)
         => next_time = based_at
    /\ next_time >= based_at

Wit_C17_NextTimeSaturated ==
  /\ pc = "wait_enter"
  /\ inter_arrival_time = Fin(1)
  /\ next_time = based_at
  /\ based_at > checked_at

\* C18: end_time is the clock reading at the start of run plus runtime, for
\* the whole run: no draw, wait or action execution time changes it.
Thm_C18_EndTimeFixed ==
  pc \in InIteration \cup {"loop", "returned"} =>
    end_time = called_at + runtime

Wit_C18_EndTimeFixed ==
  /\ pc = "loop"
  /\ invoked = 2
  /\ now > invoked_at
  /\ runtime > 0
  /\ end_time = called_at + runtime

\* C19: wait_until entered with a target that is not later than the clock
\* takes the remaining time as 0, reads the clock no further, and returns
\* at its next step without a panic, changing nothing of the run.
Thm_C19_WaitPastTarget ==
  [][(pc = "wait_loop" /\ entered_at >= next_time) =>
       /\ time_span = 0
       /\ current = entered_at
       /\ pc' # pc => pc' = "call"
       /\ UNCHANGED <<end_time, next_time, inter_arrival_time, panic_msg,
                      panic_in, calls, drawn, invoked>>]_vars

Wit_C19_WaitPastTarget ==
  /\ pc = "call"
  /\ entered_at > next_time
  /\ now = entered_at
  /\ panic_in = ""

====
